---- MODULE Spec2Model ----
(***************************************************************************)
(* A model of the `users` crate (src/src/lib.rs): the OSUsers cache, the   *)
(* conversion of libc records into User and Group values, the five cache-  *)
(* bound operations of `impl Users for OSUsers`, and the five stateless    *)
(* functions that run one operation on a fresh cache.                      *)
(*                                                                         *)
(* The libc identity database is the environment: a passwd table and a     *)
(* group table, fixed for a whole behaviour, searched in file order by the *)
(* raw accessors.                                                          *)
(***************************************************************************)
EXTENDS Integers, Sequences, FiniteSets, TLC

(***************************************************************************)
(* Bounds of the model.                                                    *)
(***************************************************************************)
MaxPw    == 2    \* most entries of the passwd table
MaxGr    == 1    \* most entries of the group table
MaxCalls == 2    \* most raw accessor calls in one behaviour
MaxMem   == 4    \* most entries of a gr_mem array before its closing null

(***************************************************************************)
(* Option<T>: None is the empty tuple, Some(v) a one-element tuple.  A raw *)
(* pointer is modelled the same way: NULL, or a pointer to one record.     *)
(***************************************************************************)
None        == << >>
Some(v)     == << v >>
NULL        == << >>
PointerTo(r) == << r >>

(***************************************************************************)
(* Names are non-empty byte strings over Chars.  Junk is a byte that no    *)
(* name of the database contains.                                          *)
(***************************************************************************)
Names == { << "a" >>, << "a", "b" >> }
Junk  == "?"

IsPrefix(s, t) == Len(s) <= Len(t) /\ SubSeq(t, 1, Len(s)) = s

Uids   == {0, 1}
Gids   == {0, 1}
PwGids == {100}
ProcUids == {1}

RECURSIVE SeqsUpTo(_, _)
SeqsUpTo(S, n) ==
    IF n = 0 THEN { << >> }
    ELSE LET shorter == SeqsUpTo(S, n - 1)
         IN  shorter \cup { Append(s, x) : s \in shorter, x \in S }

(***************************************************************************)
(* struct c_passwd and struct c_group: the fields the crate reads.         *)
(* gr_mem is the array of member-name pointers, ended by a null pointer.   *)
(***************************************************************************)
c_passwd == [pw_name : Names, pw_uid : Uids, pw_gid : PwGids]

GrMems == { << NULL >>, << PointerTo(<< "a" >>), NULL >> }

c_group == [gr_name : Names, gr_gid : Gids, gr_mem : GrMems]

PwDbs == SeqsUpTo(c_passwd, MaxPw)
GrDbs == SeqsUpTo(c_group, MaxGr)

(***************************************************************************)
(* The hosts a behaviour may run on.  The two tables are independent, so   *)
(* one of them ranges over every table within its bound while the other    *)
(* is a fixed table of one entry.                                          *)
(***************************************************************************)
OnePw == << [pw_name |-> << "a" >>, pw_uid |-> 0, pw_gid |-> 100] >>
OneGr == << [gr_name |-> << "a" >>, gr_gid |-> 0,
             gr_mem  |-> << PointerTo(<< "a" >>), NULL >>] >>

Hosts == { h \in PwDbs \X GrDbs : h[1] = OnePw \/ h[2] = OneGr }

TidyHosts ==
    { h \in Hosts :
        /\ \A i, j \in 1..Len(h[1]) : h[1][i].pw_name = h[1][j].pw_name => i = j
        /\ \A i, j \in 1..Len(h[2]) : h[2][i].gr_name = h[2][j].gr_name => i = j }

VARIABLES
    pwdb,      \* the passwd table of the host
    grdb,      \* the group table of the host
    procuid,   \* the uid of the running process
    heap,      \* what lies behind a String's buffer: "zeroed" or "dirty"
    cache,     \* the one OSUsers value the cache-bound operations work on
    panicked,  \* the thread has panicked
    ncalls,    \* calls the cache-bound operations have made, per raw accessor
    nstateless,\* calls the stateless functions have made to the raw accessors
    last,      \* the operation that ran last, and what it returned
    returned,  \* the values each cache-bound operation has returned so far
    absent,    \* the arguments each cache-bound operation has answered "absent"
    pwbuf,     \* libc's static passwd record, which getpwuid fills and points to
    thread     \* the threads that run a stateless lookup side by side

vars == << pwdb, grdb, procuid, heap, cache, panicked, ncalls, nstateless, last,
           returned, absent, pwbuf, thread >>

Threads == {1, 2}

Accessors == {"getpwuid", "getpwnam", "getgrgid", "getgrnam", "getuid"}
Operations == {"get_user_by_uid", "get_user_by_name",
               "get_group_by_gid", "get_group_by_name", "get_current_uid"}

(***************************************************************************)
(* The raw accessors: the first entry of the table that matches, or NULL.  *)
(***************************************************************************)
FirstMatch(db, hits) ==
    IF hits = {} THEN NULL
    ELSE PointerTo(db[CHOOSE i \in hits : \A j \in hits : i <= j])

getpwuid(db, uid) ==
    FirstMatch(db, { i \in 1..Len(db) : db[i].pw_uid = uid })

getpwnam(db, cstr) ==
    FirstMatch(db, { i \in 1..Len(db) : db[i].pw_name = cstr })

getgrgid(db, gid) ==
    FirstMatch(db, { i \in 1..Len(db) : db[i].gr_gid = gid })

getgrnam(db, cstr) ==
    FirstMatch(db, { i \in 1..Len(db) : db[i].gr_name = cstr })

getuid == procuid

(***************************************************************************)
(* `name.as_ptr() as *const i8`: the pointer handed to getpwnam and        *)
(* getgrnam addresses the bytes of a String, which carry no terminating    *)
(* NUL.  The callee reads on past the end of the buffer up to the first    *)
(* zero byte it meets, so the C string it sees is the name followed by     *)
(* whatever bytes lie behind it: nothing (a zero byte follows at once),    *)
(* bytes that make a longer name, or bytes that make no name at all.  On   *)
(* a zeroed heap a zero byte always follows and the callee sees the name.  *)
(***************************************************************************)
as_ptr(name) ==
    IF heap = "zeroed"
    THEN { name }
    ELSE { m \in Names : IsPrefix(name, m) } \cup { Append(name, Junk) }

(***************************************************************************)
(* The conversion layer.                                                   *)
(***************************************************************************)
\* `x as u32` of a c_int: x modulo 2^32, written as its two 16-bit halves
\* << high, low >> (a value of 2^31 or more does not fit the checker's integers).
as_u32(x) ==
    LET low  == x % 65536
        high == ((x - low) \div 65536) % 65536
    IN  << high, low >>

\* A variant that takes the uid from pw_gid and the group from pw_uid.
passwd_to_user_fields_swapped(pointer) ==
    IF pointer # NULL
    THEN LET pw == pointer[1]
         IN  Some([uid           |-> pw.pw_gid,
                   name          |-> pw.pw_name,
                   primary_group |-> as_u32(pw.pw_uid)])
    ELSE None

passwd_to_user(pointer) ==
    IF pointer # NULL
    THEN LET pw == pointer[1]
         IN  Some([uid           |-> pw.pw_uid,
                   name          |-> pw.pw_name,
                   primary_group |-> as_u32(pw.pw_gid)])
    ELSE None

\* A variant that puts each name in front of the ones found before it.
RECURSIVE members_loop_prepending(_, _, _)
members_loop_prepending(groups, i, acc) ==
    IF i > Len(groups) THEN acc
    ELSE LET username == groups[i]
         IN  IF username # NULL
             THEN members_loop_prepending(groups, i + 1, << username[1] >> \o acc)
             ELSE acc

RECURSIVE members_loop(_, _, _)
members_loop(groups, i, acc) ==
    IF i > Len(groups) THEN acc
    ELSE LET username == groups[i]
         IN  IF username # NULL
             THEN members_loop(groups, i + 1, Append(acc, username[1]))
             ELSE acc

members(groups) == members_loop(groups, 1, << >>)

struct_to_group(pointer) ==
    IF pointer # NULL
    THEN LET gr == pointer[1]
         IN  Some([gid     |-> gr.gr_gid,
                   name    |-> gr.gr_name,
                   members |-> members(gr.gr_mem)])
    ELSE None

(***************************************************************************)
(* HashMap: a function whose domain is the set of keys present.            *)
(***************************************************************************)
HashMap_new == << >>

insert(map, k, v) ==
    [x \in (DOMAIN map) \cup {k} |-> IF x = k THEN v ELSE map[x]]

empty_cache ==
    [users       |-> HashMap_new,
     users_back  |-> HashMap_new,
     groups      |-> HashMap_new,
     groups_back |-> HashMap_new,
     uid         |-> None]

(***************************************************************************)
(* What one operation does: the cache it leaves, the value it returns, the *)
(* raw accessors it called, and whether it panicked.                       *)
(***************************************************************************)
Return(c, r, called) == [cache |-> c, res |-> r, calls |-> called, panic |-> FALSE]
Panic(c, called)     == [cache |-> c, res |-> None, calls |-> called, panic |-> TRUE]

(***************************************************************************)
(* impl Users for OSUsers.  `pointer` is what the raw accessor returns for *)
(* the key; it is read on a cache miss only.                               *)
(***************************************************************************)
\* A variant that matches on the entry of a clone of self.users, as the group
\* lookups do: what entry.set writes is lost.
get_user_by_uid_on_clone(c, uid, pointer) ==
    IF uid \notin DOMAIN c.users
    THEN LET user == passwd_to_user(pointer)
         IN  IF user # None
             THEN Return([c EXCEPT
                            !.users_back = insert(@, user[1].name, Some(user[1].uid))],
                         Some(user[1]), << "getpwuid" >>)
             ELSE Return(c, None, << "getpwuid" >>)
    ELSE Return(c, c.users[uid], << >>)

OSUsers_get_user_by_uid(c, uid, pointer) ==
    IF uid \notin DOMAIN c.users
    THEN \* Vacant(entry)
         LET user == passwd_to_user(pointer)
         IN  IF user # None
             THEN Return([c EXCEPT
                            !.users      = insert(@, uid, Some(user[1])),
                            !.users_back = insert(@, user[1].name, Some(user[1].uid))],
                         Some(user[1]), << "getpwuid" >>)
             ELSE Return([c EXCEPT !.users = insert(@, uid, None)],
                         None, << "getpwuid" >>)
    ELSE \* Occupied(entry)
         Return(c, c.users[uid], << >>)

\* A variant that leaves out `self.users.insert(user.uid, ...)`.
get_user_by_name_without_insert(c, username, pointer) ==
    IF username \notin DOMAIN c.users_back
    THEN LET user == passwd_to_user(pointer)
         IN  IF user # None
             THEN Return([c EXCEPT
                            !.users_back = insert(@, username, Some(user[1].uid))],
                         Some(user[1]), << "getpwnam" >>)
             ELSE Return([c EXCEPT !.users_back = insert(@, username, None)],
                         None, << "getpwnam" >>)
    ELSE LET e == c.users_back[username]
         IN  IF e # None
             THEN IF e[1] \in DOMAIN c.users
                  THEN Return(c, c.users[e[1]], << >>)
                  ELSE Panic(c, << >>)
             ELSE Return(c, None, << >>)

OSUsers_get_user_by_name(c, username, pointer) ==
    IF username \notin DOMAIN c.users_back
    THEN \* Vacant(entry)
         LET user == passwd_to_user(pointer)
         IN  IF user # None
             THEN Return([c EXCEPT
                            !.users_back = insert(@, username, Some(user[1].uid)),
                            !.users      = insert(@, user[1].uid, Some(user[1]))],
                         Some(user[1]), << "getpwnam" >>)
             ELSE Return([c EXCEPT !.users_back = insert(@, username, None)],
                         None, << "getpwnam" >>)
    ELSE \* Occupied(entry)
         LET e == c.users_back[username]
         IN  IF e # None
             THEN \* self.users[uid]: indexing a HashMap panics on a missing key
                  IF e[1] \in DOMAIN c.users
                  THEN Return(c, c.users[e[1]], << >>)
                  ELSE Panic(c, << >>)
             ELSE Return(c, None, << >>)

(***************************************************************************)
(* The two group lookups match on the entry of a clone of the map          *)
(* (`self.groups.clone().entry(gid)`): what entry.set writes goes into     *)
(* the temporary clone, which is dropped at the end of the match.  Only    *)
(* the insert into the other map reaches the cache.                        *)
(***************************************************************************)
\* A variant that puts the name of the group into users_back instead of
\* groups_back.
get_group_by_gid_writing_users_back(c, gid, pointer) ==
    LET clone == c.groups
    IN  IF gid \notin DOMAIN clone
        THEN LET group == struct_to_group(pointer)
             IN  IF group # None
                 THEN Return([c EXCEPT
                                !.users_back =
                                    insert(@, group[1].name, Some(group[1].gid))],
                             Some(group[1]), << "getgrgid" >>)
                 ELSE Return(c, None, << "getgrgid" >>)
        ELSE Return(c, clone[gid], << >>)

OSUsers_get_group_by_gid(c, gid, pointer) ==
    LET clone == c.groups
    IN  IF gid \notin DOMAIN clone
        THEN \* Vacant(entry)
             LET group == struct_to_group(pointer)
             IN  IF group # None
                 THEN LET dropped == insert(clone, gid, Some(group[1]))
                      IN  Return([c EXCEPT
                                    !.groups_back =
                                        insert(@, group[1].name, Some(group[1].gid))],
                                 Some(group[1]), << "getgrgid" >>)
                 ELSE LET dropped == insert(clone, gid, None)
                      IN  Return(c, None, << "getgrgid" >>)
        ELSE \* Occupied(entry)
             Return(c, clone[gid], << >>)

OSUsers_get_group_by_name(c, group_name, pointer) ==
    LET clone == c.groups_back
    IN  IF group_name \notin DOMAIN clone
        THEN \* Vacant(entry)
             LET user == struct_to_group(pointer)
             IN  IF user # None
                 THEN LET dropped == insert(clone, group_name, Some(user[1].gid))
                      IN  Return([c EXCEPT
                                    !.groups = insert(@, user[1].gid, Some(user[1]))],
                                 Some(user[1]), << "getgrnam" >>)
                 ELSE LET dropped == insert(clone, group_name, None)
                      IN  Return(c, None, << "getgrnam" >>)
        ELSE \* Occupied(entry)
             LET e == clone[group_name]
             IN  IF e # None
                 THEN \* self.groups[gid]: indexing a HashMap panics on a missing key
                      IF e[1] \in DOMAIN c.groups
                      THEN Return(c, c.groups[e[1]], << >>)
                      ELSE Panic(c, << >>)
                 ELSE Return(c, None, << >>)

\* A variant that leaves out `self.uid = Some(uid)`.
get_current_uid_without_store(c, id) ==
    IF c.uid # None
    THEN Return(c, Some(c.uid[1]), << >>)
    ELSE Return(c, Some(id), << "getuid" >>)

OSUsers_get_current_uid(c, id) ==
    IF c.uid # None
    THEN Return(c, Some(c.uid[1]), << >>)
    ELSE LET uid == id
         IN  Return([c EXCEPT !.uid = Some(uid)], Some(uid), << "getuid" >>)

(***************************************************************************)
(* The stateless functions: one operation on OSUsers::empty_cache(); the   *)
(* cache is dropped when the function returns.                             *)
(***************************************************************************)
\* A variant that runs on the shared cache instead of a fresh one.
get_user_by_uid_on_shared_cache(uid, pointer) ==
    OSUsers_get_user_by_uid(cache, uid, pointer)

get_user_by_uid(uid, pointer) ==
    OSUsers_get_user_by_uid(empty_cache, uid, pointer)

get_user_by_name(username, pointer) ==
    OSUsers_get_user_by_name(empty_cache, username, pointer)

get_group_by_gid(gid, pointer) ==
    OSUsers_get_group_by_gid(empty_cache, gid, pointer)

get_group_by_name(group_name, pointer) ==
    OSUsers_get_group_by_name(empty_cache, group_name, pointer)

get_current_uid(id) ==
    OSUsers_get_current_uid(empty_cache, id)

(***************************************************************************)
(* The state machine.  A behaviour is a sequence of calls made by one      *)
(* thread, on the one cache or on the stateless functions; a panic ends    *)
(* it.                                                                     *)
(***************************************************************************)
TotalCalls(n) ==
    n["getpwuid"] + n["getpwnam"] + n["getgrgid"] + n["getgrnam"] + n["getuid"]

Count(n, called) ==
    [a \in Accessors |-> n[a] + Cardinality({ i \in 1..Len(called) : called[i] = a })]

InitOn(hosts, bytes) ==
    /\ \E h \in hosts : pwdb = h[1] /\ grdb = h[2]
    /\ procuid \in ProcUids
    /\ heap = bytes
    /\ cache = empty_cache
    /\ panicked = FALSE
    /\ ncalls = [a \in Accessors |-> 0]
    /\ nstateless = 0
    /\ last = [api |-> "none", op |-> "none", arg |-> None, res |-> None,
               calls |-> << >>, panic |-> FALSE]
    /\ returned = [op \in Operations |-> {}]
    /\ absent = [op \in Operations |-> {}]
    /\ pwbuf = NULL
    /\ thread = [t \in Threads |->
                    [pc |-> "idle", uid |-> None, pointer |-> NULL, pw |-> NULL,
                     res |-> None]]

\* Any host: nothing is known of the bytes behind a String's buffer.
Init == InitOn(Hosts, "dirty")

\* A tidy host: no name occurs twice in a table (uids and gids may), and a
\* zero byte follows every String's buffer.
InitTidy == InitOn(TidyHosts, "zeroed")

\* One call of a cache-bound operation: r is what the operation did.
OnCache(op, arg, r) ==
    /\ ~panicked
    /\ TotalCalls(ncalls) + nstateless + Len(r.calls) <= MaxCalls
    /\ cache' = r.cache
    /\ panicked' = r.panic
    /\ ncalls' = Count(ncalls, r.calls)
    /\ UNCHANGED nstateless
    /\ last' = [api |-> "cache", op |-> op, arg |-> arg, res |-> r.res,
                calls |-> r.calls, panic |-> r.panic]
    /\ returned' = IF ~r.panic /\ r.res # None
                   THEN [returned EXCEPT ![op] = @ \cup {r.res[1]}]
                   ELSE returned
    /\ absent' = IF ~r.panic /\ r.res = None
                 THEN [absent EXCEPT ![op] = @ \cup {arg[1]}]
                 ELSE absent
    /\ UNCHANGED << pwdb, grdb, procuid, heap, pwbuf, thread >>

\* One call of a stateless function: its cache is dropped with r.
Stateless(op, arg, r) ==
    /\ ~panicked
    /\ TotalCalls(ncalls) + nstateless + Len(r.calls) <= MaxCalls
    /\ panicked' = r.panic
    /\ nstateless' = nstateless + Len(r.calls)
    /\ last' = [api |-> "stateless", op |-> op, arg |-> arg, res |-> r.res,
                calls |-> r.calls, panic |-> r.panic]
    /\ UNCHANGED << pwdb, grdb, procuid, heap, cache, ncalls, returned, absent,
                    pwbuf, thread >>

CacheGetUserByUid ==
    \E uid \in Uids :
        OnCache("get_user_by_uid", Some(uid),
                OSUsers_get_user_by_uid(cache, uid, getpwuid(pwdb, uid)))

CacheGetUserByName ==
    \E username \in Names : \E cstr \in as_ptr(username) :
        OnCache("get_user_by_name", Some(username),
                OSUsers_get_user_by_name(cache, username, getpwnam(pwdb, cstr)))

CacheGetGroupByGid ==
    \E gid \in Gids :
        OnCache("get_group_by_gid", Some(gid),
                OSUsers_get_group_by_gid(cache, gid, getgrgid(grdb, gid)))

CacheGetGroupByName ==
    \E group_name \in Names : \E cstr \in as_ptr(group_name) :
        OnCache("get_group_by_name", Some(group_name),
                OSUsers_get_group_by_name(cache, group_name, getgrnam(grdb, cstr)))

CacheGetCurrentUid ==
    OnCache("get_current_uid", None, OSUsers_get_current_uid(cache, getuid))

StatelessGetUserByUid ==
    \E uid \in Uids :
        Stateless("get_user_by_uid", Some(uid),
                  get_user_by_uid(uid, getpwuid(pwdb, uid)))

StatelessGetUserByName ==
    \E username \in Names : \E cstr \in as_ptr(username) :
        Stateless("get_user_by_name", Some(username),
                  get_user_by_name(username, getpwnam(pwdb, cstr)))

StatelessGetGroupByGid ==
    \E gid \in Gids :
        Stateless("get_group_by_gid", Some(gid),
                  get_group_by_gid(gid, getgrgid(grdb, gid)))

StatelessGetGroupByName ==
    \E group_name \in Names : \E cstr \in as_ptr(group_name) :
        Stateless("get_group_by_name", Some(group_name),
                  get_group_by_name(group_name, getgrnam(grdb, cstr)))

StatelessGetCurrentUid ==
    Stateless("get_current_uid", None, get_current_uid(getuid))

Next ==
    \/ CacheGetUserByUid
    \/ CacheGetUserByName
    \/ CacheGetGroupByGid
    \/ CacheGetGroupByName
    \/ CacheGetCurrentUid
    \/ StatelessGetUserByUid
    \/ StatelessGetUserByName
    \/ StatelessGetGroupByGid
    \/ StatelessGetGroupByName
    \/ StatelessGetCurrentUid

Spec == Init /\ [][Next]_vars

\* The behaviours of Spec on a tidy host, where getpwnam and getgrnam see
\* the name itself and a name stands for one entry.
SpecTidy == InitTidy /\ [][Next]_vars

(***************************************************************************)
(* Two threads, each running the stateless get_user_by_uid once.  getpwuid *)
(* returns a pointer to one record that libc owns and fills again on every *)
(* call, from whichever thread.  The function takes three steps: the call  *)
(* of getpwuid on the vacant entry of its fresh cache, `read(pointer)`,    *)
(* which copies the struct, and String::from_raw_buf(pw.pw_name), which    *)
(* copies the name the struct points to.  A thread whose copy overlaps a   *)
(* call of another thread gets the bytes of one record or of the other.    *)
(***************************************************************************)
ThreadCall(t) ==
    \E uid \in Uids :
        LET found == getpwuid(pwdb, uid)
        IN  /\ thread[t].pc = "idle"
            /\ pwbuf' = IF found # NULL THEN found ELSE pwbuf
            /\ thread' = [thread EXCEPT ![t] =
                             [@ EXCEPT !.pc = "called", !.uid = Some(uid),
                                       !.pointer = IF found # NULL
                                                   THEN PointerTo("pwbuf")
                                                   ELSE NULL]]
            /\ UNCHANGED << pwdb, grdb, procuid, heap, cache, panicked, ncalls,
                            nstateless, last, returned, absent >>

ThreadRead(t) ==
    /\ thread[t].pc = "called"
    /\ thread' = [thread EXCEPT ![t] =
                     IF thread[t].pointer # NULL
                     THEN [@ EXCEPT !.pc = "read", !.pw = pwbuf]
                     ELSE [@ EXCEPT !.pc = "done", !.res = passwd_to_user(NULL)]]
    /\ UNCHANGED << pwdb, grdb, procuid, heap, cache, panicked, ncalls,
                    nstateless, last, returned, absent, pwbuf >>

ThreadCopyName(t) ==
    /\ thread[t].pc = "read"
    /\ LET pw == [thread[t].pw[1] EXCEPT !.pw_name = pwbuf[1].pw_name]
           r  == OSUsers_get_user_by_uid(empty_cache, thread[t].uid[1], PointerTo(pw))
       IN  thread' = [thread EXCEPT ![t] = [@ EXCEPT !.pc = "done", !.res = r.res]]
    /\ UNCHANGED << pwdb, grdb, procuid, heap, cache, panicked, ncalls,
                    nstateless, last, returned, absent, pwbuf >>

NextThreads == \E t \in Threads : ThreadCall(t) \/ ThreadRead(t) \/ ThreadCopyName(t)

SpecThreads == InitTidy /\ [][NextThreads]_vars

(***************************************************************************)
(* The conversion of one group record on its own.  The record is any       *)
(* c_group, or no record at all; its gr_mem array holds pointers to names  *)
(* and null pointers in any order and ends with a null pointer, as libc    *)
(* lays it out (what follows the first null pointer is memory the array    *)
(* does not own).  `last` holds the pointer and then the result.           *)
(***************************************************************************)
MemArrays ==
    { Append(a, NULL) : a \in SeqsUpTo({ PointerTo(n) : n \in Names } \cup { NULL }, MaxMem) }

GroupPointers ==
    { NULL } \cup
    { PointerTo(gr) : gr \in [gr_name : Names, gr_gid : Gids, gr_mem : MemArrays] }

InitConvert ==
    /\ pwdb = << >>
    /\ grdb = << >>
    /\ procuid \in ProcUids
    /\ heap = "zeroed"
    /\ cache = empty_cache
    /\ panicked = FALSE
    /\ ncalls = [a \in Accessors |-> 0]
    /\ nstateless = 0
    /\ \E pointer \in GroupPointers :
          last = [api |-> "input", op |-> "struct_to_group", arg |-> pointer,
                  res |-> None, calls |-> << >>, panic |-> FALSE]
    /\ returned = [op \in Operations |-> {}]
    /\ absent = [op \in Operations |-> {}]
    /\ pwbuf = NULL
    /\ thread = [t \in Threads |->
                    [pc |-> "idle", uid |-> None, pointer |-> NULL, pw |-> NULL,
                     res |-> None]]

Convert ==
    /\ last.api = "input"
    /\ last' = [last EXCEPT !.api = "convert", !.res = struct_to_group(last.arg)]
    /\ UNCHANGED << pwdb, grdb, procuid, heap, cache, panicked, ncalls, nstateless,
                    returned, absent, pwbuf, thread >>

SpecConvert == InitConvert /\ [][Convert]_vars

(***************************************************************************)
(* Shorthands for the claims.                                              *)
(***************************************************************************)
\* The operation that ran last is the cache-bound operation op.
LastOnCache(op) == last.api = "cache" /\ last.op = op

\* The results the stateless function op may return for arg on this host.
StatelessResults(op, arg) ==
    CASE op = "get_user_by_uid" ->
           { get_user_by_uid(arg[1], getpwuid(pwdb, arg[1])).res }
      [] op = "get_user_by_name" ->
           { get_user_by_name(arg[1], getpwnam(pwdb, cstr)).res :
               cstr \in as_ptr(arg[1]) }
      [] op = "get_group_by_gid" ->
           { get_group_by_gid(arg[1], getgrgid(grdb, arg[1])).res }
      [] op = "get_group_by_name" ->
           { get_group_by_name(arg[1], getgrnam(grdb, cstr)).res :
               cstr \in as_ptr(arg[1]) }
      [] op = "get_current_uid" ->
           { get_current_uid(getuid).res }

(***************************************************************************)
(* C1.  get_user_by_uid(X) immediately followed by get_user_by_uid(X) on   *)
(* the same cache: the second call returns what the first returned and     *)
(* calls no raw accessor, whether the first result was a user or absent.   *)
(***************************************************************************)
C1_SecondUidLookupIsAHit ==
    [][ ( /\ LastOnCache("get_user_by_uid")
          /\ last'.api = "cache"
          /\ last'.op = "get_user_by_uid"
          /\ last'.arg = last.arg )
        => ( /\ ~last'.panic
             /\ last'.res = last.res
             /\ last'.calls = << >>
             /\ ncalls' = ncalls ) ]_vars

\* A second get_user_by_uid(X) has answered "absent" from the cache.
C1_Witness ==
    /\ LastOnCache("get_user_by_uid")
    /\ last.res = None
    /\ last.calls = << >>
    /\ ncalls["getpwuid"] = 1

(***************************************************************************)
(* C2.  get_group_by_gid(X) immediately followed by get_group_by_gid(X)    *)
(* on the same cache: the second call returns what the first returned and  *)
(* calls no raw accessor, the first call having left an entry for X in     *)
(* the gid-keyed mapping.                                                  *)
(***************************************************************************)
C2_SecondGidLookupIsAHit ==
    [][ ( /\ LastOnCache("get_group_by_gid")
          /\ last'.api = "cache"
          /\ last'.op = "get_group_by_gid"
          /\ last'.arg = last.arg )
        => ( /\ ~last'.panic
             /\ last'.res = last.res
             /\ last'.calls = << >>
             /\ ncalls' = ncalls
             /\ last.arg[1] \in DOMAIN cache.groups ) ]_vars

(***************************************************************************)
(* C3.  Once get_user_by_uid has returned a user u named n on the cache,   *)
(* every later get_user_by_name(n) on that cache returns u and calls no    *)
(* raw accessor.                                                           *)
(***************************************************************************)
C3_NameLookupAfterUidLookup ==
    LastOnCache("get_user_by_name") =>
        \A u \in returned["get_user_by_uid"] :
            u.name = last.arg[1] =>
                /\ ~last.panic
                /\ last.res = Some(u)
                /\ last.calls = << >>

(***************************************************************************)
(* C4.  Once get_group_by_gid has returned a group g named n on the        *)
(* cache, every later get_group_by_name(n) on that cache returns g and     *)
(* calls no raw accessor.                                                  *)
(***************************************************************************)
C4_GroupNameLookupAfterGidLookup ==
    LastOnCache("get_group_by_name") =>
        \A g \in returned["get_group_by_gid"] :
            g.name = last.arg[1] =>
                /\ ~last.panic
                /\ last.res = Some(g)
                /\ last.calls = << >>

C6_NoPanic == ~panicked

(***************************************************************************)
(* C7.  The cache is strictly additive: a key that has an entry in one of  *)
(* the four mappings keeps that entry, with the same value, in every       *)
(* later state.                                                            *)
(***************************************************************************)
Kept(old, new) == \A k \in DOMAIN old : k \in DOMAIN new /\ new[k] = old[k]

C7_StrictlyAdditive ==
    [][ /\ Kept(cache.users, cache'.users)
        /\ Kept(cache.users_back, cache'.users_back)
        /\ Kept(cache.groups, cache'.groups)
        /\ Kept(cache.groups_back, cache'.groups_back) ]_vars

(***************************************************************************)
(* C8.  Whatever ran before it, a cache-bound operation returns a result   *)
(* that the stateless function of the same name returns for the same       *)
(* argument on the same host.                                              *)
(***************************************************************************)
C8_CacheAgreesWithStateless ==
    last.api = "cache" =>
        /\ ~last.panic
        /\ last.res \in StatelessResults(last.op, last.arg)

(***************************************************************************)
(* C9.  On one cache getuid is called at most once: as soon as             *)
(* get_current_uid has returned, it has been called exactly once, its      *)
(* result is stored in the cache, and every get_current_uid so far has     *)
(* returned that one value.                                                *)
(***************************************************************************)
C9_GetuidAtMostOnce ==
    /\ ncalls["getuid"] <= 1
    /\ returned["get_current_uid"] # {} =>
          /\ ncalls["getuid"] = 1
          /\ cache.uid # None
          /\ returned["get_current_uid"] = { cache.uid[1] }
    /\ LastOnCache("get_current_uid") =>
          /\ ~last.panic
          /\ last.res = cache.uid
          /\ last.res = Some(getuid)

\* A later get_current_uid has been answered without a call of getuid,
\* after lookups made their own accessor calls.
C9_Witness ==
    /\ LastOnCache("get_current_uid")
    /\ last.calls = << >>
    /\ ncalls["getuid"] = 1
    /\ TotalCalls(ncalls) > 1

(***************************************************************************)
(* C10.  Every call of a stateless function makes exactly one raw          *)
(* accessor call, whatever the cache holds and whatever was called         *)
(* before, and leaves the cache and its call counts untouched: n calls in  *)
(* a row make n accessor calls.                                            *)
(***************************************************************************)
C10_StatelessCallsOnce ==
    [][ last'.api = "stateless"
        => ( /\ nstateless' = nstateless + 1
             /\ Len(last'.calls) = 1
             /\ ~last'.panic
             /\ cache' = cache
             /\ ncalls' = ncalls ) ]_vars

\* Two stateless lookups have run on a cache that stayed empty, and have
\* made two accessor calls.
C10_Witness ==
    /\ last.api = "stateless"
    /\ last.op = "get_user_by_uid"
    /\ nstateless = 2
    /\ TotalCalls(ncalls) = 0
    /\ cache = empty_cache

(***************************************************************************)
(* C11.  Two threads each run the stateless get_user_by_uid at the same    *)
(* time: under every interleaving of their steps, a thread that has        *)
(* finished holds the result the function gives for its own uid when it    *)
(* runs alone.                                                             *)
(***************************************************************************)
C11_ThreadsGetTheirOwnRecord ==
    \A t \in Threads :
        thread[t].pc = "done" =>
            thread[t].res =
                get_user_by_uid(thread[t].uid[1], getpwuid(pwdb, thread[t].uid[1])).res

(***************************************************************************)
(* C12.  A negative result does not poison other keys.  On a cache where   *)
(* get_user_by_uid(X) has returned absent, get_user_by_name(n) for a name  *)
(* n of the database returns the user of that name, and                    *)
(* get_user_by_uid(Y) for a uid Y # X of the database returns the user of  *)
(* that uid; on a cache where get_user_by_name(m) has returned absent,     *)
(* get_user_by_uid(Y) for a uid Y of the database returns the user of      *)
(* that uid.  (users holds None under X exactly when get_user_by_uid(X)    *)
(* has returned absent, users_back holds None under m exactly when         *)
(* get_user_by_name(m) has.)                                               *)
(***************************************************************************)
AbsentUids  == { x \in DOMAIN cache.users : cache.users[x] = None }
AbsentNames == { m \in DOMAIN cache.users_back : cache.users_back[m] = None }

C12_NegativeResultsDoNotPoison ==
    /\ ( /\ LastOnCache("get_user_by_name")
         /\ AbsentUids # {}
         /\ getpwnam(pwdb, last.arg[1]) # NULL )
       => ( /\ ~last.panic
            /\ last.res = passwd_to_user(getpwnam(pwdb, last.arg[1])) )
    /\ ( /\ LastOnCache("get_user_by_uid")
         /\ \/ AbsentUids \ {last.arg[1]} # {}
            \/ AbsentNames # {}
         /\ getpwuid(pwdb, last.arg[1]) # NULL )
       => ( /\ ~last.panic
            /\ last.res = passwd_to_user(getpwuid(pwdb, last.arg[1])) )

(***************************************************************************)
(* C13.  Whatever ran before on the cache, a user that get_user_by_uid(X)  *)
(* returns has uid X, whether it comes from getpwuid or from the cache;    *)
(* and every user the uid-keyed mapping holds has the uid of its key, so   *)
(* looking up the uid of a returned user gives that uid again.             *)
(***************************************************************************)
C13_ReturnedUserHasTheUid ==
    /\ LastOnCache("get_user_by_uid") /\ last.res # None
          => ~last.panic /\ last.res[1].uid = last.arg[1]
    /\ \A x \in DOMAIN cache.users :
          cache.users[x] # None => cache.users[x][1].uid = x

\* get_user_by_uid(get_current_uid()) has been answered from the cache
\* with a user.
C13_Witness ==
    /\ LastOnCache("get_user_by_uid")
    /\ cache.uid # None
    /\ last.arg = cache.uid
    /\ last.res # None
    /\ last.calls = << >>

(***************************************************************************)
(* C14.  struct_to_group of a record gives a present Group whose member    *)
(* list is the entries of gr_mem before the first null entry: as many, in  *)
(* the same order, none dropped or repeated.  A record whose first entry   *)
(* is null gives a present Group with an empty list; only a null record    *)
(* pointer gives absent.                                                   *)
(***************************************************************************)
FirstNull(mem) ==
    CHOOSE k \in 1..Len(mem) : mem[k] = NULL /\ \A j \in 1..(k - 1) : mem[j] # NULL

C14_MembersUpToFirstNull ==
    last.api = "convert" =>
        IF last.arg = NULL
        THEN last.res = None
        ELSE LET gr == last.arg[1]
                 k  == FirstNull(gr.gr_mem)
             IN  /\ last.res # None
                 /\ last.res[1].gid = gr.gr_gid
                 /\ last.res[1].name = gr.gr_name
                 /\ Len(last.res[1].members) = k - 1
                 /\ \A i \in 1..(k - 1) : last.res[1].members[i] = gr.gr_mem[i][1]
                 /\ (k = 1 => last.res[1].members = << >>)

\* A record with two different member names, a null entry and a further
\* name behind it has been converted.
C14_Witness ==
    /\ last.api = "convert"
    /\ last.arg # NULL
    /\ Len(last.arg[1].gr_mem) = 5
    /\ FirstNull(last.arg[1].gr_mem) = 3
    /\ last.arg[1].gr_mem[4] # NULL
    /\ last.res # None
    /\ Len(last.res[1].members) = 2
    /\ last.res[1].members[1] # last.res[1].members[2]

(***************************************************************************)
(* C15.  The cross-population invariant, in both key spaces: whenever the  *)
(* name index holds Some(id) under a name, the id-keyed mapping holds      *)
(* Some(value) under that id, and the value's id is that id.               *)
(***************************************************************************)
UsersCrossPopulated ==
    \A name \in DOMAIN cache.users_back :
        cache.users_back[name] # None =>
            LET uid == cache.users_back[name][1]
            IN  /\ uid \in DOMAIN cache.users
                /\ cache.users[uid] # None
                /\ cache.users[uid][1].uid = uid

GroupsCrossPopulated ==
    \A name \in DOMAIN cache.groups_back :
        cache.groups_back[name] # None =>
            LET gid == cache.groups_back[name][1]
            IN  /\ gid \in DOMAIN cache.groups
                /\ cache.groups[gid] # None
                /\ cache.groups[gid][1].gid = gid

C15_CrossPopulation == UsersCrossPopulated /\ GroupsCrossPopulated

(***************************************************************************)
(* C16.  get_group_by_name(n) followed by get_group_by_name(n) on the same *)
(* cache, whether or not the database has a group named n: the second call *)
(* returns what the first returned and does not call getgrnam, the first   *)
(* call having left Some(gid) or None under n in the group-name index.     *)
(***************************************************************************)
C16_SecondGroupNameLookupIsAHit ==
    [][ ( /\ LastOnCache("get_group_by_name")
          /\ ~last.panic
          /\ last'.api = "cache"
          /\ last'.op = "get_group_by_name"
          /\ last'.arg = last.arg )
        => ( /\ ~last'.panic
             /\ last'.res = last.res
             /\ last'.calls = << >>
             /\ ncalls' = ncalls
             /\ last.arg[1] \in DOMAIN cache.groups_back ) ]_vars

(***************************************************************************)
(* C17.  A negative user lookup writes one entry and nothing else.         *)
(* get_user_by_uid(X) that misses the cache and gets no record adds        *)
(* X -> None to users and leaves users_back, groups, groups_back and uid   *)
(* as they were; get_user_by_name(n) that misses the cache and gets no     *)
(* record adds n -> None to users_back and leaves users, groups,           *)
(* groups_back and uid as they were; and every get_user_by_name(n) after   *)
(* one that was answered absent is answered absent without a raw accessor  *)
(* call.                                                                   *)
(***************************************************************************)
NegativeMiss(op) ==
    /\ last'.api = "cache"
    /\ last'.op = op
    /\ last'.calls # << >>
    /\ last'.res = None
    /\ ~last'.panic

C17_NegativeLookupWritesOneEntry ==
    [][ /\ NegativeMiss("get_user_by_uid") =>
              /\ last'.arg[1] \notin DOMAIN cache.users
              /\ cache' = [cache EXCEPT !.users = insert(@, last'.arg[1], None)]
        /\ NegativeMiss("get_user_by_name") =>
              /\ last'.arg[1] \notin DOMAIN cache.users_back
              /\ cache' = [cache EXCEPT !.users_back = insert(@, last'.arg[1], None)]
        /\ ( /\ last'.api = "cache"
             /\ last'.op = "get_user_by_name"
             /\ last'.arg[1] \in absent["get_user_by_name"] )
           => ( /\ ~last'.panic
                /\ last'.res = None
                /\ last'.calls = << >>
                /\ ncalls' = ncalls ) ]_vars

(***************************************************************************)
(* C18.  Whatever the database (two login names may share a uid) and       *)
(* whatever ran before on the cache, a user that get_user_by_name(n)       *)
(* returns is named n.                                                     *)
(***************************************************************************)
C18_ReturnedUserHasTheName ==
    ( LastOnCache("get_user_by_name") /\ last.res # None )
        => ~last.panic /\ last.res[1].name = last.arg[1]

(***************************************************************************)
(* C19.  The key spaces of a cache are independent.  The user lookups      *)
(* leave groups, groups_back and uid as they were; the group lookups       *)
(* leave users, users_back and uid as they were; get_current_uid leaves    *)
(* the four mappings as they were; and an operation that calls no raw      *)
(* accessor (a hit) leaves the whole cache as it was.                      *)
(***************************************************************************)
C19_KeySpacesAreIndependent ==
    [][ last'.api = "cache" =>
          /\ last'.op \in {"get_user_by_uid", "get_user_by_name"} =>
                /\ cache'.groups = cache.groups
                /\ cache'.groups_back = cache.groups_back
                /\ cache'.uid = cache.uid
          /\ last'.op \in {"get_group_by_gid", "get_group_by_name"} =>
                /\ cache'.users = cache.users
                /\ cache'.users_back = cache.users_back
                /\ cache'.uid = cache.uid
          /\ last'.op = "get_current_uid" =>
                cache' = [cache EXCEPT !.uid = cache'.uid]
          /\ last'.calls = << >> => cache' = cache ]_vars

\* A group lookup has been answered from a cache that holds a user too.
C19_Witness ==
    /\ LastOnCache("get_group_by_gid")
    /\ last.calls = << >>
    /\ last.res # None
    /\ cache.users # << >>
    /\ cache.users_back # << >>
    /\ cache.groups # << >>

====
